---- MODULE Spec2Model ----
(***************************************************************************)
(* AI-Virtual-Mouse: the per-frame gesture engine (GestureHandler) and the *)
(* scroll engine (ScrollHandler).                                          *)
(*                                                                         *)
(* Time is counted in ticks of 0.01 s.  Scroll speeds are the exact        *)
(* rationals the formulas of get_progressive_speed denote, kept as integer *)
(* numerators over the common denominator Scale.  Cursor positions are     *)
(* fixed-point numbers, Fix units to the pixel, with divisions truncated   *)
(* toward zero.                                                            *)
(***************************************************************************)
EXTENDS Integers, Sequences, FiniteSets, TLC

\* ------------------------------------------------------------ config.py
CAMERA_WIDTH == 640
CAMERA_HEIGHT == 480
FRAME_REDUCTION == 100
SMOOTHENING == 7
BASE_SCROLL_SENSITIVITY == 5
MAX_SCROLL_SENSITIVITY == 20
SCROLL_DELAY == 2
SCROLL_HISTORY_LENGTH == 3
DRAG_CLICK_THRESHOLD == 30
PINCH_DISTANCE_THRESHOLD == 40
SCROLL_NEUTRAL_ZONE_HEIGHT_RATIO_INV == 5
SCROLL_BOOST_MULTIPLIER == 15
\* time.sleep(0.3) after a click or a right click
CLICK_SLEEP == 30

\* autopy.screen.size(), read once by MouseController.__init__
W_SCREEN == 1920
H_SCREEN == 1080
\* landmarks of a detected hand (the MediaPipe hand model)
HAND_LANDMARKS == 21

\* ------------------------------------------------------------ bounds
\* cursor positions are kept in units of 1/Fix pixel
Fix == 1000
\* frames of the cursor runs start while the clock is at most Epoch + CursorHorizon
CursorHorizon == 37
RetargetAt == 20
GestureHorizon == 180
HoldHorizon == 60
PointerHorizon == 120
\* time.time() when the handler is constructed (far from 0, the initial
\* value of last_scroll_time and drag_start_time)
Epoch == 100
\* frames of the drag runs start while the clock is at most Epoch + DragHorizon
DragHorizon == 36
\* frames of the scroll runs start while the clock is at most Epoch + ScrollHorizon
ScrollHorizon == 12

\* time that passes between two frames: below, at and (as 1 + 30) above the
\* hold threshold; below, at and above the scroll delay
DragGaps == {1, 30}
ScrollGaps == {1, 2, 3}
\* wrist y of a scroll frame: frame edges, zone edges, points in each zone
WristYs == {0, 81, 191, 192, 240, 288, 289, 480}
\* a wrist y inside the neutral zone
NeutralYs == {240}
\* thumb-index and index-middle distances (find_distance): pinched, at the
\* threshold
Lengths == {5, 40}
\* finger vectors [thumb, index, middle, ring, pinky]
FingerVectors ==
    {<<t, i, m, 0, 0>> : t \in {0, 1}, i \in {0, 1}, m \in {0, 1}}
        \cup {<<0, 0, 0, 1, 1>>, <<0, 0, 0, 1, 0>>, <<0, 1, 0, 1, 1>>}
\* index fingertip (x, y) in camera pixels: outside the frame-reduction
\* rectangle on either side, on its corners, inside it
IndexTips == {<<0, 40>>, <<100, 100>>, <<320, 240>>, <<540, 380>>, <<640, 480>>}
\* the fingertip that maps to the cursor's initial position (0, 0)
OriginTips == {<<FRAME_REDUCTION, FRAME_REDUCTION>>}
\* lengths of a landmark list too short for lm_list[8], lm_list[12], lm_list[20]
ShortLengths == {1, 9, 20}
\* gaps and wrist positions of the runs that mix every gesture
GestureGaps == {30}
GestureYs == {0, 240}
\* gaps of the runs with a held pinch
HoldGaps == {10, 30}
\* finger vectors with thumb and index up
PinchVectors == {<<1, 1, 0, 0, 0>>, <<1, 1, 1, 0, 0>>}
\* finger vectors of the drag gesture: thumb and index up, index alone
StopVectors == {<<1, 1, 0, 0, 0>>, <<0, 1, 0, 0, 0>>}
\* finger vectors that end a scroll session
RestVectors == {<<0, 0, 0, 0, 0>>, <<0, 0, 0, 1, 0>>}

VARIABLES
    now,              \* time.time()
    drag_mode,        \* GestureHandler.drag_mode
    drag_active,      \* GestureHandler.drag_active
    drag_start_time,  \* GestureHandler.drag_start_time
    scroll_mode,      \* ScrollHandler.scroll_mode
    scroll_history,   \* ScrollHandler.scroll_history
    last_scroll_time, \* ScrollHandler.last_scroll_time
    button,           \* the OS left button, as autopy.mouse.toggle left it
    cmds,             \* the calls the last frame made on the mouse controller
    inp,              \* the arguments of the last process_frame call
    pinch_since,      \* history: frame time at which the present unbroken run
                      \* of pinch-engaged frames began, -1 when there is none
    last_emit,        \* history: frame time of the last scroll command, -1 if none
    scroll_speed,     \* scroll_speed of _handle_scroll in the last frame, 0 when
                      \* the frame computed none
    cleared,          \* history: the last frame activated scroll mode and its
                      \* activate_scroll_mode found samples in the history
    run_y0,           \* history: every frame so far had only ring and pinky up,
                      \* wrist y = 0, and came more than SCROLL_DELAY after the
                      \* frame before it
    pc,               \* main: "running" its loop, "raised" out of process_frame,
                      \* "stopped" after the finally clause
    ploc_x, ploc_y,   \* GestureHandler.ploc_x, ploc_y
    cloc_x, cloc_y,   \* GestureHandler.cloc_x, cloc_y
    x_mapped, y_mapped, \* x_mapped, y_mapped of the last _handle_movement
    tip_seen,         \* history: the index fingertip of the last move frame,
                      \* <<>> before the first
    steady_frames,    \* history: move frames since the mapped target last
                      \* changed that found the cursor away from it
    steady_from,      \* history: (ploc_x, ploc_y) when the mapped target last
                      \* changed
    frame_time,       \* history: time.time() when the last frame started
    since_click,      \* history: time since the last click or right click was
                      \* emitted, capped at CLICK_SLEEP; -1 before the first
    rc_run,           \* history: the present unbroken run of frames that
                      \* present [1,1,0,0,0] with thumb and index pinched
    dropped,          \* history: smooth_scroll of the last frame dropped the
                      \* oldest sample
    timer             \* history: whether the pinch hold timer (drag_mode) runs,
                      \* whether the frame that started it had the middle
                      \* finger down, whether a right click was emitted since

cursor == <<ploc_x, ploc_y, cloc_x, cloc_y, x_mapped, y_mapped, tip_seen,
            steady_frames, steady_from>>

vars == <<now, drag_mode, drag_active, drag_start_time, scroll_mode,
          scroll_history, last_scroll_time, button, cmds, inp, pinch_since,
          last_emit, scroll_speed, cleared, run_y0, pc, ploc_x, ploc_y,
          cloc_x, cloc_y, x_mapped, y_mapped, tip_seen, steady_frames,
          steady_from, frame_time, since_click, rc_run, dropped, timer>>

\* ------------------------------------------------------------ mouse sink
Move == [op |-> "move", arg |-> 0]
Click == [op |-> "click", arg |-> 0]
RightClick == [op |-> "right_click", arg |-> 0]
BeginDrag == [op |-> "toggle_drag", arg |-> 1]
EndDrag == [op |-> "toggle_drag", arg |-> 0]
Scroll(amount) == [op |-> "scroll", arg |-> amount]

\* move(x, y) is called with (cloc_x, cloc_y)
\* MouseController.toggle_drag sets the button to the given state; the other
\* calls leave it alone.
RECURSIVE toggle_drag(_, _)
toggle_drag(held, cs) ==
    IF cs = <<>> THEN held
    ELSE toggle_drag(IF Head(cs).op = "toggle_drag" THEN Head(cs).arg = 1
                     ELSE held, Tail(cs))

\* ------------------------------------------------------------ arithmetic
Abs(x) == IF x < 0 THEN -x ELSE x
\* int(n / d): truncation toward zero, d > 0
Trunc(n, d) == IF n >= 0 THEN n \div d ELSE -((-n) \div d)
Min(a, b) == IF a < b THEN a ELSE b
Max(a, b) == IF a > b THEN a ELSE b
RECURSIVE Sum(_)
Sum(s) == IF s = <<>> THEN 0 ELSE Head(s) + Sum(Tail(s))

\* ------------------------------------------------------------ ScrollHandler
neutral_zone_height == CAMERA_HEIGHT \div SCROLL_NEUTRAL_ZONE_HEIGHT_RATIO_INV
neutral_top == (CAMERA_HEIGHT - neutral_zone_height) \div 2
neutral_bottom == (CAMERA_HEIGHT + neutral_zone_height) \div 2

\* common denominator of the speeds: dist_from_neutral squared has the
\* denominator neutral_top^2 above the zone and (H - neutral_bottom)^2 below
\* it, and the two are equal
Scale == neutral_top * neutral_top

\* n / d as a numerator over Scale (exact: d = Scale), in two parts to stay
\* within 32 bits
OverScale(n, d) == (n \div d) * Scale + ((n % d) * Scale) \div d

get_progressive_speed(y_pos) ==
    IF neutral_top <= y_pos /\ y_pos <= neutral_bottom THEN 0
    ELSE IF y_pos < neutral_top
    THEN -(BASE_SCROLL_SENSITIVITY * Scale)
         + (MAX_SCROLL_SENSITIVITY - BASE_SCROLL_SENSITIVITY)
           * (neutral_top - y_pos) * (neutral_top - y_pos)
    ELSE BASE_SCROLL_SENSITIVITY * Scale
         + OverScale((MAX_SCROLL_SENSITIVITY - BASE_SCROLL_SENSITIVITY)
                     * (y_pos - neutral_bottom) * (y_pos - neutral_bottom),
                     (CAMERA_HEIGHT - neutral_bottom) * (CAMERA_HEIGHT - neutral_bottom))

\* should_scroll without the timing test
should_scroll_any_time(speed, current_time, last) ==
    2 * Abs(speed) > Scale

\* should_scroll without the speed test
should_scroll_any_speed(speed, current_time, last) ==
    current_time - last > SCROLL_DELAY

\* current_time - last_scroll_time > SCROLL_DELAY and abs(scroll_speed) > 0.5
should_scroll(speed, current_time, last) ==
    /\ current_time - last > SCROLL_DELAY
    /\ 2 * Abs(speed) > Scale

\* the history after smooth_scroll(current_amount); the value it returns is
\* Sum(history) / Len(history)
\* smooth_scroll that never drops a sample
smooth_scroll_unbounded(history, current_amount) == Append(history, current_amount)

smooth_scroll(history, current_amount) ==
    LET h == Append(history, current_amount)
    IN  IF Len(h) > SCROLL_HISTORY_LENGTH THEN Tail(h) ELSE h

\* int(smoothed_scroll * SCROLL_BOOST_MULTIPLIER)
scroll_amount(history) ==
    Trunc(SCROLL_BOOST_MULTIPLIER * Sum(history), Len(history) * Scale)

\* activate_scroll_mode that keeps the samples of the session before
activate_scroll_mode_keeping(history) == history

activate_scroll_mode(history) == <<>>

\* ------------------------------------------------------------ HandDetector
\* find_distance over a landmark list of n entries whose two points are
\* length apart: the sentinel 0 when the list is too short for p1 or p2
find_distance(n, p1, p2, length) ==
    IF n < Max(p1, p2) + 1 THEN 0 ELSE length

\* ------------------------------------------------------------ GestureHandler
\* an interpolation that follows the line outside the two points
interp_extrapolating(x, xp0, xp1, fp0, fp1) ==
    fp0 * Fix + Trunc((x - xp0) * (fp1 - fp0) * Fix, xp1 - xp0)

\* np.interp(x, (xp0, xp1), (fp0, fp1)): linear between the two points and
\* constant (fp0, fp1) outside them; the result in 1/Fix units
interp(x, xp0, xp1, fp0, fp1) ==
    IF x <= xp0 THEN fp0 * Fix
    ELSE IF x >= xp1 THEN fp1 * Fix
    ELSE fp0 * Fix + Trunc((x - xp0) * (fp1 - fp0) * Fix, xp1 - xp0)

\* a cursor that jumps to the mapped point
smooth_jump(ploc, mapped) == mapped

\* self.ploc + (mapped - self.ploc) / SMOOTHENING
smooth(ploc, mapped) == ploc + Trunc(mapped - ploc, SMOOTHENING)

\* the cursor part without the store of line 130
handle_cursor_unstored(px, py, tip) ==
    LET xm == interp(tip[1], FRAME_REDUCTION, CAMERA_WIDTH - FRAME_REDUCTION,
                     0, W_SCREEN)
        ym == interp(tip[2], FRAME_REDUCTION, CAMERA_HEIGHT - FRAME_REDUCTION,
                     0, H_SCREEN)
    IN  [x_mapped |-> xm, y_mapped |-> ym,
         cloc_x |-> smooth(px, xm), cloc_y |-> smooth(py, ym),
         ploc_x |-> px, ploc_y |-> py]

\* _handle_movement, the cursor part: map, smooth, move, store
handle_cursor(px, py, tip) ==
    LET xm == interp(tip[1], FRAME_REDUCTION, CAMERA_WIDTH - FRAME_REDUCTION,
                     0, W_SCREEN)
        ym == interp(tip[2], FRAME_REDUCTION, CAMERA_HEIGHT - FRAME_REDUCTION,
                     0, H_SCREEN)
        cx == smooth(px, xm)
        cy == smooth(py, ym)
    IN  [x_mapped |-> xm, y_mapped |-> ym, cloc_x |-> cx, cloc_y |-> cy,
         ploc_x |-> cx, ploc_y |-> cy]

\* a cleanup that leaves the button alone
cleanup_silent(da) == <<>>

\* cleanup: if self.drag_active: toggle_drag(False)
cleanup(da) == IF da THEN <<EndDrag>> ELSE <<>>

\* the scroll gesture judged by ring and pinky alone
ScrollGesture_ring_pinky(fingers) == fingers[5] = 1 /\ fingers[4] = 1

ScrollGesture(fingers) ==
    fingers[5] = 1 /\ fingers[4] = 1 /\ fingers[1] + fingers[2] + fingers[3] = 0

\* a release that resets the flags without the toggle_drag(False) call
release_drag_silent(dm, da, dst) ==
    IF da THEN [drag_mode |-> FALSE, drag_active |-> FALSE,
                drag_start_time |-> dst, cmds |-> <<>>]
    ELSE [drag_mode |-> dm, drag_active |-> da,
          drag_start_time |-> dst, cmds |-> <<>>]

\* the forced release: if self.drag_active: toggle_drag(False) ...
release_drag(dm, da, dst) ==
    IF da THEN [drag_mode |-> FALSE, drag_active |-> FALSE,
                drag_start_time |-> dst, cmds |-> <<EndDrag>>]
    ELSE [drag_mode |-> dm, drag_active |-> da,
          drag_start_time |-> dst, cmds |-> <<>>]

\* the drag part without the "not self.drag_active" test of the confirmation
handle_drag_rebegin(dm, da, dst, fingers, length, t) ==
    IF fingers[1] = 1 /\ length < PINCH_DISTANCE_THRESHOLD
    THEN IF ~dm
         THEN [drag_mode |-> TRUE, drag_active |-> da,
               drag_start_time |-> t, cmds |-> <<>>]
         ELSE IF t - dst > DRAG_CLICK_THRESHOLD
         THEN [drag_mode |-> dm, drag_active |-> TRUE,
               drag_start_time |-> dst, cmds |-> <<BeginDrag>>]
         ELSE [drag_mode |-> dm, drag_active |-> da,
               drag_start_time |-> dst, cmds |-> <<>>]
    ELSE release_drag(dm, da, dst)

\* the drag part with a hold timer that restarts in every pinched frame
handle_drag_retimed(dm, da, dst, fingers, length, t) ==
    IF fingers[1] = 1 /\ length < PINCH_DISTANCE_THRESHOLD
    THEN IF ~dm
         THEN [drag_mode |-> TRUE, drag_active |-> da,
               drag_start_time |-> t, cmds |-> <<>>]
         ELSE IF t - dst > DRAG_CLICK_THRESHOLD /\ ~da
         THEN [drag_mode |-> dm, drag_active |-> TRUE,
               drag_start_time |-> dst, cmds |-> <<BeginDrag>>]
         ELSE [drag_mode |-> dm, drag_active |-> da,
               drag_start_time |-> t, cmds |-> <<>>]
    ELSE release_drag(dm, da, dst)

\* _handle_movement, the drag part (thumb + index pinch and hold)
handle_drag(dm, da, dst, fingers, length, t) ==
    IF fingers[1] = 1
    THEN IF length < PINCH_DISTANCE_THRESHOLD
         THEN IF ~dm
              THEN [drag_mode |-> TRUE, drag_active |-> da,
                    drag_start_time |-> t, cmds |-> <<>>]
              ELSE IF t - dst > DRAG_CLICK_THRESHOLD /\ ~da
              THEN [drag_mode |-> dm, drag_active |-> TRUE,
                    drag_start_time |-> dst, cmds |-> <<BeginDrag>>]
              ELSE [drag_mode |-> dm, drag_active |-> da,
                    drag_start_time |-> dst, cmds |-> <<>>]
         ELSE release_drag(dm, da, dst)
    ELSE release_drag(dm, da, dst)

handle_left_click(fingers, length812) ==
    IF fingers[2] = 1 /\ fingers[3] = 1 /\ length812 < PINCH_DISTANCE_THRESHOLD
    THEN <<Click>> ELSE <<>>

\* a right click with a pinch threshold of its own, a tenth of the drag's
handle_right_click_tight(fingers, length48) ==
    IF fingers[1] = 1 /\ fingers[2] = 1 /\ fingers[3] = 0
       /\ 10 * length48 < PINCH_DISTANCE_THRESHOLD
    THEN <<RightClick>> ELSE <<>>

handle_right_click(fingers, length48) ==
    IF fingers[1] = 1 /\ fingers[2] = 1 /\ fingers[3] = 0
       /\ length48 < PINCH_DISTANCE_THRESHOLD
    THEN <<RightClick>> ELSE <<>>

\* the clicks of a frame evaluated whether or not a drag is confirmed
handle_clicks_while_dragging(da, fingers, length48, length812) ==
    handle_left_click(fingers, length812) \o handle_right_click(fingers, length48)

\* the clicks of a frame that ended with drag_active = da
handle_clicks(da, fingers, length48, length812) ==
    IF da THEN <<>>
    ELSE handle_left_click(fingers, length812) \o handle_right_click(fingers, length48)

\* clicks that return at once
SleepOf_none(cs) == 0

\* each click sleeps CLICK_SLEEP before process_frame goes on
SleepOf(cs) == CLICK_SLEEP * Len(SelectSeq(cs, LAMBDA c : c.op \in {"click", "right_click"}))

\* _handle_scroll: the scroll engine's state and the command of the frame
handle_scroll(mode, history, last, wrist_y, t) ==
    LET h0 == IF ~mode THEN activate_scroll_mode(history) ELSE history
        speed == get_progressive_speed(wrist_y)
    IN  IF should_scroll(speed, t, last)
        THEN LET h1 == smooth_scroll(h0, speed)
             IN  [scroll_history |-> h1, last_scroll_time |-> t,
                  scroll_speed |-> speed, before |-> h0,
                  cmds |-> <<Scroll(scroll_amount(h1))>>]
        ELSE [scroll_history |-> h0, last_scroll_time |-> last,
              scroll_speed |-> speed, before |-> h0, cmds |-> <<>>]

\* the pinch of the drag gesture is engaged in a frame
PinchEngaged(i) ==
    /\ i.hand
    /\ i.fingers[1] = 1 /\ i.fingers[2] = 1
    /\ i.length48 < PINCH_DISTANCE_THRESHOLD

\* the frame presents [1,1,0,0,0] with thumb and index pinched
RightClickPresented(i) ==
    /\ i.hand
    /\ i.fingers = <<1, 1, 0, 0, 0>>
    /\ i.length48 < PINCH_DISTANCE_THRESHOLD

IsClick(c) == c.op \in {"click", "right_click"}
NoRun == [len |-> 0, clicks |-> 0, idle |-> FALSE, unconfirmed |-> FALSE]

NoTimer == [running |-> FALSE, middle_down |-> FALSE, clicked |-> FALSE]

\* bookkeeping shared by every frame: the button, the histories
Record(t, i, cs) ==
    /\ frame_time' = t
    /\ timer' =
          LET rc == \E k \in 1..Len(cs) : cs[k] = RightClick
          IN  IF ~drag_mode' THEN NoTimer
              ELSE IF ~drag_mode
              THEN [running |-> TRUE, middle_down |-> i.fingers[3] = 0,
                    clicked |-> rc]
              ELSE [timer EXCEPT !.clicked = @ \/ rc]
    /\ since_click' =
          IF \E k \in 1..Len(cs) : IsClick(cs[k])
          THEN Min(now' - t, CLICK_SLEEP)
          ELSE IF since_click = -1 THEN -1
          ELSE Min(since_click + (now' - now), CLICK_SLEEP)
    /\ rc_run' =
          IF RightClickPresented(i)
          THEN [len |-> Min(rc_run.len + 1, 2),
                clicks |-> Min(rc_run.clicks
                               + Len(SelectSeq(cs, LAMBDA c : c = RightClick)), 2),
                idle |-> IF rc_run.len = 0 THEN ~drag_mode ELSE rc_run.idle,
                unconfirmed |-> IF rc_run.len = 0 THEN ~drag_active
                                ELSE rc_run.unconfirmed]
          ELSE NoRun
    /\ inp' = i
    /\ cmds' = cs
    /\ button' = toggle_drag(button, cs)
    /\ pinch_since' = IF PinchEngaged(i)
                      THEN (IF pinch_since = -1 THEN t ELSE pinch_since)
                      ELSE -1
    /\ last_emit' = IF \E k \in 1..Len(cs) : cs[k].op = "scroll" THEN t ELSE last_emit

NoInput == [hand |-> FALSE, landmarks |-> 0, fingers |-> <<0, 0, 0, 0, 0>>,
            length48 |-> 0, length812 |-> 0, wrist_y |-> 0, tip |-> <<0, 0>>]

Init ==
    /\ now = Epoch
    /\ drag_mode = FALSE
    /\ drag_active = FALSE
    /\ drag_start_time = 0
    /\ scroll_mode = FALSE
    /\ scroll_history = <<>>
    /\ last_scroll_time = 0
    /\ button = FALSE
    /\ cmds = <<>>
    /\ inp = NoInput
    /\ pinch_since = -1
    /\ last_emit = -1
    /\ scroll_speed = 0
    /\ cleared = FALSE
    /\ run_y0 = TRUE
    /\ pc = "running"
    /\ ploc_x = 0
    /\ ploc_y = 0
    /\ cloc_x = 0
    /\ cloc_y = 0
    /\ x_mapped = 0
    /\ y_mapped = 0
    /\ tip_seen = <<>>
    /\ steady_frames = 0
    /\ steady_from = <<0, 0>>
    /\ frame_time = Epoch
    /\ since_click = -1
    /\ rc_run = NoRun
    /\ dropped = FALSE
    /\ timer = NoTimer

\* process_frame with an empty landmark list (main.py passes all fingers down)
NoHandFrame(dt) ==
    LET t == now + dt
        d == release_drag(drag_mode, drag_active, drag_start_time)
    IN  /\ now' = t
        /\ drag_mode' = d.drag_mode
        /\ drag_active' = d.drag_active
        /\ drag_start_time' = d.drag_start_time
        /\ UNCHANGED <<scroll_mode, scroll_history, last_scroll_time>>
        /\ scroll_speed' = 0
        /\ cleared' = FALSE
        /\ run_y0' = FALSE
        /\ dropped' = FALSE
        /\ UNCHANGED <<pc, cursor>>
        /\ Record(t, NoInput, d.cmds)

\* process_frame with only ring and pinky up
ScrollFrame(dt, wrist_y) ==
    LET t == now + dt
        s == handle_scroll(scroll_mode, scroll_history, last_scroll_time, wrist_y, t)
        d == release_drag(drag_mode, drag_active, drag_start_time)
    IN  /\ now' = t
        /\ scroll_mode' = TRUE
        /\ scroll_history' = s.scroll_history
        /\ last_scroll_time' = s.last_scroll_time
        /\ scroll_speed' = s.scroll_speed
        /\ cleared' = (~scroll_mode /\ scroll_history # <<>>)
        /\ run_y0' = (run_y0 /\ wrist_y = 0 /\ dt > SCROLL_DELAY)
        /\ dropped' = (s.cmds # <<>> /\ Len(s.before) >= SCROLL_HISTORY_LENGTH)
        /\ UNCHANGED <<pc, cursor>>
        /\ drag_mode' = d.drag_mode
        /\ drag_active' = d.drag_active
        /\ drag_start_time' = d.drag_start_time
        /\ \E fingers \in FingerVectors :
              /\ ScrollGesture(fingers)
              /\ Record(t, [hand |-> TRUE, landmarks |-> HAND_LANDMARKS,
                            fingers |-> fingers,
                            length48 |-> PINCH_DISTANCE_THRESHOLD,
                            length812 |-> PINCH_DISTANCE_THRESHOLD,
                            wrist_y |-> wrist_y,
                            tip |-> <<FRAME_REDUCTION, FRAME_REDUCTION>>],
                        s.cmds \o d.cmds)

\* process_frame with the index finger up (not the scroll gesture)
MoveFrame(dt, fingers, length48, length812, tip) ==
    LET t == now + dt
        m == handle_cursor(ploc_x, ploc_y, tip)
        l48 == find_distance(HAND_LANDMARKS, 4, 8, length48)
        l812 == find_distance(HAND_LANDMARKS, 8, 12, length812)
        d == handle_drag(drag_mode, drag_active, drag_start_time, fingers, l48, t)
        c == handle_clicks(d.drag_active, fingers, l48, l812)
    IN  /\ ~ScrollGesture(fingers)
        /\ fingers[2] = 1
        /\ x_mapped' = m.x_mapped
        /\ y_mapped' = m.y_mapped
        /\ cloc_x' = m.cloc_x
        /\ cloc_y' = m.cloc_y
        /\ ploc_x' = m.ploc_x
        /\ ploc_y' = m.ploc_y
        /\ tip_seen' = tip
        /\ steady_frames' =
              IF <<ploc_x, ploc_y>> = <<m.x_mapped, m.y_mapped>> THEN 0
              ELSE IF tip_seen # <<>> /\ <<x_mapped, y_mapped>> = <<m.x_mapped, m.y_mapped>>
              THEN steady_frames + 1
              ELSE 1
        /\ steady_from' =
              IF tip_seen # <<>> /\ <<x_mapped, y_mapped>> = <<m.x_mapped, m.y_mapped>>
              THEN steady_from
              ELSE <<ploc_x, ploc_y>>
        /\ dropped' = FALSE
        /\ UNCHANGED pc
        /\ now' = t + SleepOf(c)
        /\ scroll_mode' = FALSE
        /\ UNCHANGED <<scroll_history, last_scroll_time>>
        /\ scroll_speed' = 0
        /\ cleared' = FALSE
        /\ run_y0' = FALSE
        /\ drag_mode' = d.drag_mode
        /\ drag_active' = d.drag_active
        /\ drag_start_time' = d.drag_start_time
        /\ Record(t, [hand |-> TRUE, landmarks |-> HAND_LANDMARKS,
                      fingers |-> fingers, length48 |-> length48,
                      length812 |-> length812, wrist_y |-> 0, tip |-> tip],
                  <<Move>> \o d.cmds \o c)

\* process_frame with the index finger down (not the scroll gesture)
IndexDownFrame(dt, fingers) ==
    LET t == now + dt
        d == release_drag(drag_mode, drag_active, drag_start_time)
        c == handle_clicks(d.drag_active, fingers, PINCH_DISTANCE_THRESHOLD,
                           PINCH_DISTANCE_THRESHOLD)
    IN  /\ fingers[2] = 0
        /\ ~ScrollGesture(fingers)
        /\ now' = t + SleepOf(c)
        /\ scroll_mode' = FALSE
        /\ UNCHANGED <<scroll_history, last_scroll_time>>
        /\ scroll_speed' = 0
        /\ cleared' = FALSE
        /\ run_y0' = FALSE
        /\ drag_mode' = d.drag_mode
        /\ drag_active' = d.drag_active
        /\ drag_start_time' = d.drag_start_time
        /\ dropped' = FALSE
        /\ UNCHANGED <<pc, cursor>>
        /\ Record(t, [hand |-> TRUE, landmarks |-> HAND_LANDMARKS,
                      fingers |-> fingers,
                      length48 |-> PINCH_DISTANCE_THRESHOLD,
                      length812 |-> PINCH_DISTANCE_THRESHOLD, wrist_y |-> 0,
                      tip |-> <<FRAME_REDUCTION, FRAME_REDUCTION>>],
                  d.cmds \o c)

\* process_frame with a landmark list that is not empty but shorter than the
\* 21 entries of a hand: lm_list[8], [12], [4] or [20] raises IndexError before
\* any state changes; main's except clause catches it and leaves the loop
ShortLandmarkFrame(dt, n) ==
    LET t == now + dt
    IN  /\ n > 0
        /\ n < HAND_LANDMARKS
        /\ pc' = "raised"
        /\ now' = t
        /\ UNCHANGED <<drag_mode, drag_active, drag_start_time, scroll_mode,
                       scroll_history, last_scroll_time, scroll_speed, cleared,
                       cursor>>
        /\ run_y0' = FALSE
        /\ dropped' = FALSE
        /\ Record(t, [hand |-> TRUE, landmarks |-> n,
                      fingers |-> <<0, 0, 0, 0, 0>>,
                      length48 |-> find_distance(n, 4, 8, PINCH_DISTANCE_THRESHOLD),
                      length812 |-> find_distance(n, 8, 12, PINCH_DISTANCE_THRESHOLD),
                      wrist_y |-> 0, tip |-> <<0, 0>>],
                  <<>>)

\* main's finally clause: gesture_handler.cleanup()
Cleanup ==
    /\ pc' = "stopped"
    /\ cmds' = cleanup(drag_active)
    /\ button' = toggle_drag(button, cmds')
    /\ UNCHANGED <<now, drag_mode, drag_active, drag_start_time, scroll_mode,
                   scroll_history, last_scroll_time, inp, pinch_since, last_emit,
                   scroll_speed, cleared, run_y0, cursor, frame_time,
                   since_click, rc_run, dropped, timer>>

\* the drag machine under every finger vector and pinch distance, the scroll
\* gesture with the wrist in the neutral zone
InDragRun == now < Epoch + DragHorizon
NextDrag ==
    \/ \E dt \in DragGaps : InDragRun /\ NoHandFrame(dt)
    \/ \E dt \in DragGaps, y \in NeutralYs : InDragRun /\ ScrollFrame(dt, y)
    \/ \E dt \in DragGaps, f \in FingerVectors, l1 \in Lengths, l2 \in Lengths,
          tip \in OriginTips :
          InDragRun /\ MoveFrame(dt, f, l1, l2, tip)
    \/ \E dt \in DragGaps, f \in FingerVectors : InDragRun /\ IndexDownFrame(dt, f)

\* the scroll engine under every wrist position, with the frames that end a
\* scroll session (hand lost, hand at rest)
InScrollRun == now < Epoch + ScrollHorizon
NextScroll ==
    \/ \E dt \in ScrollGaps : InScrollRun /\ NoHandFrame(dt)
    \/ \E dt \in ScrollGaps, y \in WristYs : InScrollRun /\ ScrollFrame(dt, y)
    \/ \E dt \in ScrollGaps, f \in RestVectors : InScrollRun /\ IndexDownFrame(dt, f)

\* the frame loop until it stops: frames of the drag gesture, a hand lost, a
\* landmark list cut short, then the finally clause
InStopRun == pc = "running" /\ now < Epoch + DragHorizon
NextStop ==
    \/ \E dt \in DragGaps : InStopRun /\ NoHandFrame(dt)
    \/ \E dt \in DragGaps, f \in StopVectors, l1 \in Lengths, tip \in OriginTips :
          InStopRun /\ MoveFrame(dt, f, l1, PINCH_DISTANCE_THRESHOLD, tip)
    \/ \E dt \in DragGaps, n \in ShortLengths : InStopRun /\ ShortLandmarkFrame(dt, n)
    \/ pc # "stopped" /\ Cleanup

\* the cursor under an index fingertip that rests at one place for many
\* frames and moves to another place now and then
InCursorRun == steady_frames < CursorHorizon /\ now < Epoch + 2 * CursorHorizon
NextCursor ==
    \E tip \in IndexTips :
        /\ InCursorRun
        /\ tip_seen = <<>> \/ tip = tip_seen \/ steady_frames = RetargetAt
        /\ MoveFrame(1, <<0, 1, 0, 0, 0>>, PINCH_DISTANCE_THRESHOLD,
                     PINCH_DISTANCE_THRESHOLD, tip)

\* every gesture in one run: scroll commands, moves, clicks and drags follow
\* one another
InGestureRun == now < Epoch + GestureHorizon
NextGesture ==
    \/ \E dt \in GestureGaps : InGestureRun /\ NoHandFrame(dt)
    \/ \E dt \in GestureGaps, y \in GestureYs : InGestureRun /\ ScrollFrame(dt, y)
    \/ \E dt \in GestureGaps, f \in FingerVectors, l1 \in Lengths, l2 \in Lengths,
          tip \in OriginTips :
          InGestureRun /\ MoveFrame(dt, f, l1, l2, tip)
    \/ \E dt \in GestureGaps, f \in FingerVectors : InGestureRun /\ IndexDownFrame(dt, f)

\* a pinch that is held: frames of any kind until the horizon, and frames
\* with thumb and index up and pinched for as long as the hold is not
\* confirmed (the deadline is past every time at which it can be pending)
InHoldRun == now < Epoch + HoldHorizon
HoldDeadline == Epoch + HoldHorizon + 2 * CLICK_SLEEP + DRAG_CLICK_THRESHOLD
HoldPending ==
    \/ InHoldRun
    \/ pinch_since # -1 /\ ~drag_active /\ now < HoldDeadline
PinchFrame ==
    \E dt \in HoldGaps, f \in PinchVectors, l2 \in Lengths, tip \in OriginTips :
        HoldPending /\ MoveFrame(dt, f, 5, l2, tip)
NextHold ==
    \/ \E dt \in HoldGaps : InHoldRun /\ NoHandFrame(dt)
    \/ \E dt \in HoldGaps, f \in PinchVectors \cup StopVectors, tip \in OriginTips :
          InHoldRun /\ MoveFrame(dt, f, PINCH_DISTANCE_THRESHOLD,
                                 PINCH_DISTANCE_THRESHOLD, tip)
    \/ PinchFrame

\* the cursor under a fingertip that moves from frame to frame, with frames
\* that are not in move mode in between
InPointerRun == now < Epoch + PointerHorizon
NextPointer ==
    \/ \E dt \in GestureGaps : InPointerRun /\ NoHandFrame(dt)
    \/ \E dt \in GestureGaps, y \in NeutralYs : InPointerRun /\ ScrollFrame(dt, y)
    \/ \E dt \in GestureGaps, tip \in IndexTips :
          InPointerRun /\ MoveFrame(dt, <<0, 1, 0, 0, 0>>, PINCH_DISTANCE_THRESHOLD,
                                    PINCH_DISTANCE_THRESHOLD, tip)
    \/ \E dt \in GestureGaps, f \in RestVectors : InPointerRun /\ IndexDownFrame(dt, f)

Next == NextDrag \/ NextScroll \/ NextStop \/ NextCursor \/ NextGesture
            \/ NextHold \/ NextPointer

Spec == Init /\ [][Next]_vars
SpecDrag == Init /\ [][NextDrag]_vars
SpecScroll == Init /\ [][NextScroll]_vars
SpecStop == Init /\ [][NextStop]_vars
SpecCursor == Init /\ [][NextCursor]_vars
SpecGesture == Init /\ [][NextGesture]_vars
\* the frame loop keeps reading frames: a pinch that is held gets its frames
SpecHold == Init /\ [][NextHold]_vars /\ WF_vars(PinchFrame)
SpecPointer == Init /\ [][NextPointer]_vars

\* ------------------------------------------------------------ claims
HasCmd(cs, c) == \E k \in 1..Len(cs) : cs[k] = c
HasScroll(cs) == \E k \in 1..Len(cs) : cs[k].op = "scroll"
IsScrollFrame(i) == i.hand /\ ScrollGesture(i.fingers)

\* C1: a begin-drag command is emitted only in a frame that ends an unbroken
\* run of pinch-engaged frames lasting at least the hold threshold.
C1_BeginDragAfterContinuousHold ==
    HasCmd(cmds, BeginDrag) =>
        pinch_since # -1 /\ now - pinch_since >= DRAG_CLICK_THRESHOLD

\* each toggle_drag call of cs changes the button, starting from held
RECURSIVE Alternates(_, _)
Alternates(held, cs) ==
    IF cs = <<>> THEN TRUE
    ELSE IF Head(cs).op = "toggle_drag"
    THEN (Head(cs).arg = 1) # held /\ Alternates(Head(cs).arg = 1, Tail(cs))
    ELSE Alternates(held, Tail(cs))

\* C2: begin-drag and end-drag alternate in the command stream, starting with
\* begin-drag (every toggle_drag call changes the button), and after every
\* frame the button is held exactly when drag_active is true.
C2_DragCommandsAlternate ==
    [][Alternates(button, cmds') /\ (button' = drag_active')]_vars

C2_Witness ==
    /\ HasCmd(cmds, EndDrag)
    /\ ~button
    /\ ~drag_active

\* C3: a frame with no hand emits end-drag if and only if a drag was
\* confirmed when the frame started, and emits nothing else.
C3_NoHandEndsDragOnly ==
    [][~inp'.hand => cmds' = (IF drag_active THEN <<EndDrag>> ELSE <<>>)]_vars

C3_Witness ==
    /\ ~inp.hand
    /\ cmds = <<EndDrag>>
    /\ ~button

\* the frame releases the pinch of the drag gesture
Released(i) ==
    \/ ~i.hand
    \/ i.fingers[1] = 0
    \/ i.fingers[2] = 0
    \/ i.length48 >= PINCH_DISTANCE_THRESHOLD
    \/ ScrollGesture(i.fingers)

\* C4: a frame that releases the pinch (distance at or above the threshold,
\* thumb down, index down, no hand, scroll gesture) while the drag machine is
\* pinching or confirmed leaves it idle.
C4_ReleaseLeavesIdle ==
    [][(drag_mode \/ drag_active) /\ Released(inp')
          => ~drag_mode' /\ ~drag_active']_vars

\* y2 lies between y1 and the frame edge of y1's zone
TowardsEdge(y1, y2) ==
    \/ y2 <= y1 /\ y1 < neutral_top
    \/ y2 >= y1 /\ y1 > neutral_bottom

\* C5: on [0, H] the magnitude of the speed does not decrease from the edge
\* of the neutral zone to the edge of the frame, and the speed is -max at
\* y = 0 and +max at y = H.
C5_SpeedMonotoneToMax ==
    IsScrollFrame(inp) =>
        /\ inp.wrist_y = 0 => scroll_speed = -(MAX_SCROLL_SENSITIVITY * Scale)
        /\ inp.wrist_y = CAMERA_HEIGHT => scroll_speed = MAX_SCROLL_SENSITIVITY * Scale
        /\ \A y2 \in 0..CAMERA_HEIGHT :
               TowardsEdge(inp.wrist_y, y2)
                   => Abs(get_progressive_speed(y2)) >= Abs(scroll_speed)

\* C6: the speed is 0 inside the neutral zone, negative above it and
\* positive below it.
C6_SpeedSign ==
    IsScrollFrame(inp) =>
        /\ (neutral_top <= inp.wrist_y /\ inp.wrist_y <= neutral_bottom)
               => scroll_speed = 0
        /\ inp.wrist_y < neutral_top => scroll_speed < 0
        /\ inp.wrist_y > neutral_bottom => scroll_speed > 0

\* C7: a run, from the initial state, of frames with only ring and pinky up
\* and the wrist at y = 0, each more than the scroll delay after the one
\* before, is in scroll mode and emits scroll(-300) in every frame.
C7_TopEdgeScrollsMinus300 ==
    (run_y0 /\ inp.hand) => scroll_mode /\ cmds = <<Scroll(-300)>>

\* C8: a scroll command is emitted at least the scroll delay after the
\* scroll command before it.
C8_ScrollsApart ==
    [][(HasScroll(cmds') /\ last_emit # -1)
          => last_emit' - last_emit >= SCROLL_DELAY]_vars

C8_Witness ==
    /\ IsScrollFrame(inp)
    /\ 2 * Abs(scroll_speed) > Scale
    /\ last_emit # -1
    /\ now - last_emit <= SCROLL_DELAY
    /\ cmds = <<>>

\* the mean of the history has a magnitude above 0.5
SmoothedAboveThreshold(history) ==
    2 * Abs(Sum(history)) > Len(history) * Scale

\* C9 as stated: every scroll command carries a smoothed speed (the mean of
\* the history after the frame's sample was added) of magnitude above 0.5.
C9_SmoothedAboveThreshold ==
    HasScroll(cmds) => SmoothedAboveThreshold(scroll_history)

\* C9 as amended: every scroll command is emitted in a frame whose raw speed
\* has a magnitude above 0.5.
C9_RawAboveThreshold ==
    HasScroll(cmds) => IsScrollFrame(inp) /\ 2 * Abs(scroll_speed) > Scale

C9_Witness ==
    /\ cmds = <<Scroll(0)>>
    /\ 2 * Abs(scroll_speed) > Scale
    /\ ~SmoothedAboveThreshold(scroll_history)

\* C10: a frame that takes scroll mode from inactive to active leaves in the
\* history only its own sample, which alone decides the amount it emits; a
\* frame that deactivates scroll mode clears the flag and leaves the history
\* and the last-emit timestamp as they were.
C10_HistoryPerSession ==
    [][/\ (~scroll_mode /\ scroll_mode')
             => /\ scroll_history' =
                       (IF HasScroll(cmds') THEN <<scroll_speed'>> ELSE <<>>)
                /\ HasScroll(cmds')
                       => cmds' = <<Scroll(Trunc(SCROLL_BOOST_MULTIPLIER * scroll_speed',
                                                 Scale))>>
       /\ (inp'.hand /\ ~ScrollGesture(inp'.fingers))
             => /\ ~scroll_mode'
                /\ scroll_history' = scroll_history
                /\ last_scroll_time' = last_scroll_time]_vars

C10_Witness ==
    /\ cleared
    /\ HasScroll(cmds)
    /\ Len(scroll_history) = 1

\* C11: a frame with no hand leaves the scroll-mode flag inactive, and a
\* scroll frame that follows a frame with no hand starts from an empty
\* history: after it the history holds at most the sample of that frame.
C11_NoHandCleansScroll ==
    [][/\ ~inp'.hand => ~scroll_mode'
       /\ (~inp.hand /\ inp'.hand /\ inp'.fingers = <<0, 0, 0, 1, 1>>)
             => Len(scroll_history') <= 1]_vars

\* C12: after a frame with a hand the scroll-mode flag is active if and only
\* if the finger vector was exactly [0,0,0,1,1]; such a frame emitted no move,
\* click, right-click or begin-drag command, and any other frame emitted no
\* scroll command and left the flag inactive.
C12_ScrollBranchExclusive ==
    inp.hand =>
        /\ scroll_mode <=> inp.fingers = <<0, 0, 0, 1, 1>>
        /\ inp.fingers = <<0, 0, 0, 1, 1>> =>
              \A k \in 1..Len(cmds) :
                  cmds[k].op \in {"scroll"} \/ cmds[k] = EndDrag
        /\ inp.fingers # <<0, 0, 0, 1, 1>> => ~HasScroll(cmds) /\ ~scroll_mode

C12_Witness ==
    /\ inp.hand
    /\ inp.fingers = <<0, 0, 0, 1, 1>>
    /\ scroll_mode
    /\ Len(cmds) = 2
    /\ cmds[1].op = "scroll"
    /\ cmds[2] = EndDrag

\* the commands cs, issued with the button held or not, put no click and no
\* right click between a begin-drag and its end-drag
RECURSIVE NoClickWhileHeld(_, _)
NoClickWhileHeld(held, cs) ==
    IF cs = <<>> THEN TRUE
    ELSE IF Head(cs).op = "toggle_drag"
         THEN NoClickWhileHeld(Head(cs).arg = 1, Tail(cs))
    ELSE IF IsClick(Head(cs))
         THEN ~held /\ NoClickWhileHeld(held, Tail(cs))
    ELSE NoClickWhileHeld(held, Tail(cs))

\* C13: no frame emits a click or a right click while the button is held by
\* a confirmed drag, and no frame emits more than one click of either kind.
C13_NoClickWhileDragging ==
    [][/\ NoClickWhileHeld(button, cmds')
       /\ Len(SelectSeq(cmds', IsClick)) <= 1]_vars

C13_Witness ==
    /\ button
    /\ drag_active
    /\ RightClickPresented(inp)
    /\ cmds = <<Move>>

\* C14 as stated: a run of consecutive frames that present [1,1,0,0,0] with
\* thumb and index pinched, begun with no drag confirmed, has emitted the
\* right-click command exactly once.
C14_RightClickExactlyOnce ==
    (rc_run.len >= 1 /\ rc_run.unconfirmed) => rc_run.clicks = 1

\* C14 as amended: such a run has emitted the right-click command at most
\* once, and exactly once when the drag machine was idle (drag_mode false) at
\* its start; and a click of either kind is emitted at least the cool-down
\* after the click before it.
C14_RightClickAtMostOnce ==
    [][/\ rc_run'.len >= 1 =>
              /\ rc_run'.clicks <= 1
              /\ rc_run'.idle => rc_run'.clicks = 1
       /\ (since_click # -1 /\ \E k \in 1..Len(cmds') : IsClick(cmds'[k]))
             => since_click + (frame_time' - now) >= CLICK_SLEEP]_vars

C14_Witness ==
    /\ rc_run.len = 2
    /\ rc_run.idle
    /\ rc_run.clicks = 1
    /\ cmds = <<Move, BeginDrag>>

\* C15: a frame that emits a click or a right click completes without
\* waiting: process_frame returns at the time the frame started.
C15_CoolDownNonBlocking ==
    (\E k \in 1..Len(cmds) : IsClick(cmds[k])) => now = frame_time

\* the line through (margin, 0) and (dimension - margin, screen_dimension)
Line(x, dimension, screen_dimension) ==
    Trunc((x - FRAME_REDUCTION) * screen_dimension * Fix,
          dimension - 2 * FRAME_REDUCTION)
IsMoveFrame(i) == i.hand /\ i.landmarks = HAND_LANDMARKS /\ i.fingers[2] = 1

\* C16 as stated: the mapped point of a move frame lies on the line, inside
\* and outside the sub-rectangle.
C16_MappingExtrapolates ==
    IsMoveFrame(inp) =>
        /\ x_mapped = Line(inp.tip[1], CAMERA_WIDTH, W_SCREEN)
        /\ y_mapped = Line(inp.tip[2], CAMERA_HEIGHT, H_SCREEN)

\* the line held at 0 below the margin and at screen_dimension above
\* dimension - margin
Clamped(x, dimension, screen_dimension) ==
    IF x < FRAME_REDUCTION THEN 0
    ELSE IF x > dimension - FRAME_REDUCTION THEN screen_dimension * Fix
    ELSE Line(x, dimension, screen_dimension)

\* C16 as amended: the mapped point of a move frame lies on the line inside
\* the sub-rectangle and is clamped to 0 and to the screen dimension outside.
C16_MappingClamps ==
    IsMoveFrame(inp) =>
        /\ x_mapped = Clamped(inp.tip[1], CAMERA_WIDTH, W_SCREEN)
        /\ y_mapped = Clamped(inp.tip[2], CAMERA_HEIGHT, H_SCREEN)

C16_Witness ==
    /\ IsMoveFrame(inp)
    /\ inp.tip[1] < FRAME_REDUCTION
    /\ x_mapped = 0
    /\ inp.tip[2] < FRAME_REDUCTION
    /\ y_mapped = 0

\* C17: a frame whose landmark list is not empty but shorter than a hand's
\* does not raise out of process_frame.
C17_ShortLandmarksNoFault ==
    (inp.hand /\ inp.landmarks < HAND_LANDMARKS) => pc # "raised"

\* C18: cleanup leaves the button released; it emits exactly one end-drag if
\* the button was held by a confirmed drag and no command otherwise.
C18_CleanupReleases ==
    [][pc' = "stopped" =>
          /\ ~button'
          /\ cmds' = IF button THEN <<EndDrag>> ELSE <<>>]_vars

C18_Witness ==
    /\ pc = "stopped"
    /\ cmds = <<EndDrag>>
    /\ ~button
    /\ inp.landmarks \in ShortLengths

FramesToConverge == 5 * SMOOTHENING

\* C19 as stated: once the mapped target has been constant for 5K move
\* frames, the smoothed position is less than 1 unit from it.
C19_WithinOneUnit ==
    steady_frames >= FramesToConverge =>
        /\ Abs(x_mapped - cloc_x) < Fix
        /\ Abs(y_mapped - cloc_y) < Fix

\* one coordinate of a move frame: from previous position p with target m to
\* smoothed position c, stored as the new previous position q; n frames after
\* the target changed with the cursor at p0
Smoothed(p, m, c, q, n, p0) ==
    /\ c = p + Trunc(m - p, SMOOTHENING)
    /\ q = c
    /\ Abs(m - c) <= Abs(m - p)
    /\ n >= FramesToConverge =>
          200 * Abs(m - c) <= Abs(m - p0) + 200 * SMOOTHENING

\* C19 as amended: each move frame sets smoothed = previous + (target -
\* previous) / K and stores it as the new previous position; the distance to
\* a constant target never grows, and after 5K frames it is at most 1/200 of
\* the distance at which the cursor stood when the target was set.
C19_ConvergesGeometrically ==
    [][IsMoveFrame(inp') =>
          /\ Smoothed(ploc_x, x_mapped', cloc_x', ploc_x', steady_frames',
                      steady_from'[1])
          /\ Smoothed(ploc_y, y_mapped', cloc_y', ploc_y', steady_frames',
                      steady_from'[2])]_vars

C19_Witness ==
    /\ steady_frames >= FramesToConverge
    /\ Abs(x_mapped - cloc_x) >= Fix
    /\ steady_from # <<0, 0>>

\* C20: the history never holds more than N samples; a frame that emits a
\* scroll command appended its raw speed to the history, dropping the oldest
\* sample of a full history, and the amount is 15 times the mean of the
\* history after the append, truncated toward zero.
C20_BoundedHistoryMean ==
    [][/\ Len(scroll_history') <= SCROLL_HISTORY_LENGTH
       /\ HasScroll(cmds') =>
             LET h0 == IF scroll_mode THEN scroll_history ELSE <<>>
                 kept == IF Len(h0) >= SCROLL_HISTORY_LENGTH THEN Tail(h0) ELSE h0
             IN  /\ scroll_history' = kept \o <<scroll_speed'>>
                 /\ cmds'[1] = Scroll(Trunc(SCROLL_BOOST_MULTIPLIER * Sum(scroll_history'),
                                            Len(scroll_history') * Scale))]_vars

C20_Witness ==
    /\ dropped
    /\ HasScroll(cmds)
    /\ Len(scroll_history) = SCROLL_HISTORY_LENGTH
    /\ scroll_history[1] # scroll_history[3]

\* the commands cs, issued with the button held or not, put no scroll
\* between a begin-drag and its end-drag
RECURSIVE NoScrollWhileHeld(_, _)
NoScrollWhileHeld(held, cs) ==
    IF cs = <<>> THEN TRUE
    ELSE IF Head(cs).op = "toggle_drag"
         THEN NoScrollWhileHeld(Head(cs).arg = 1, Tail(cs))
    ELSE IF Head(cs).op = "scroll"
         THEN ~held /\ NoScrollWhileHeld(held, Tail(cs))
    ELSE NoScrollWhileHeld(held, Tail(cs))

\* C21: a scroll frame that finds a drag confirmed ends it, and no frame
\* emits a scroll command while the button is held by a drag: the end-drag
\* comes before the scroll of the frame.
C21_EndDragBeforeScroll ==
    [][/\ (drag_active /\ inp'.hand /\ inp'.fingers = <<0, 0, 0, 1, 1>>)
             => ~drag_active' /\ HasCmd(cmds', EndDrag)
       /\ NoScrollWhileHeld(button, cmds')]_vars

\* C22: a run of frames with thumb and index up and pinched that is not
\* broken leads to a confirmed drag, and a confirmed drag stays confirmed in
\* every further frame of that kind.
C22_HeldPinchConfirmsDrag ==
    /\ (pinch_since # -1) ~> (drag_active \/ pinch_since = -1)
    /\ [][(drag_active /\ PinchEngaged(inp') /\ pc' = "running")
             => drag_active' /\ button']_vars

C22_Witness ==
    /\ PinchEngaged(inp)
    /\ inp.fingers = <<1, 1, 1, 0, 0>>
    /\ inp.length812 >= PINCH_DISTANCE_THRESHOLD
    /\ cmds = <<Move, BeginDrag>>
    /\ now - pinch_since > DRAG_CLICK_THRESHOLD
    /\ now >= Epoch + HoldHorizon

\* C23: a frame that starts the pinch hold timer (drag_mode from false to
\* true) with the middle finger down emits a right click; a begin-drag whose
\* timer was started with the middle finger down comes after a right click
\* emitted since the timer started.
C23_RightClickBeforeDrag ==
    [][/\ (~drag_mode /\ drag_mode' /\ inp'.fingers[3] = 0)
             => HasCmd(cmds', RightClick)
       /\ (HasCmd(cmds', BeginDrag) /\ timer.middle_down)
             => timer.running /\ timer.clicked]_vars

C23_Witness ==
    /\ cmds = <<Move, BeginDrag>>
    /\ timer.running
    /\ timer.middle_down
    /\ timer.clicked
    /\ inp.fingers = <<1, 1, 1, 0, 0>>

\* C24: a frame that is not in move mode leaves ploc and cloc unchanged and
\* emits no move command; after every frame ploc equals cloc.
C24_CursorOwnedByMoveFrames ==
    [][/\ ~IsMoveFrame(inp') =>
              /\ UNCHANGED <<ploc_x, ploc_y, cloc_x, cloc_y>>
              /\ ~HasCmd(cmds', Move)
       /\ ploc_x' = cloc_x'
       /\ ploc_y' = cloc_y']_vars

C24_Witness ==
    /\ inp.hand
    /\ ~IsMoveFrame(inp)
    /\ cmds = <<>>
    /\ cloc_x # 0
    /\ cloc_x # x_mapped
    /\ ploc_x = cloc_x

====
